---- MODULE Spec2Model ----
(***************************************************************************)
(* FundScope: the weekly ranking pipeline of one IA sector.                *)
(*                                                                         *)
(* The model follows backend/engine/ranking.py (assign_deciles,            *)
(* assign_quartiles, assign_ranks, rank_sector) and the part of            *)
(* backend/pipeline.py (run_pipeline) that acquires one sector's snapshot, *)
(* reads the prior ranking rows, ranks, and stores the ranking rows.       *)
(* Around it: run_pipeline over all monitored sectors, get_db and step 5   *)
(* (backend/db.py), POST /api/pipeline/run (backend/api/main.py),          *)
(* TrustnetScraper._get and fetch_sector (backend/scraper/trustnet.py),    *)
(* and dispatch_digest (backend/email/dispatcher.py).                      *)
(*                                                                         *)
(* Conventions                                                             *)
(*   - a nullable number (Python None, pandas NA/NaN, SQL NULL) is None;   *)
(*   - the per-period columns x_1m, x_3m, x_6m of the source are the       *)
(*     function x[p], p \in PeriodSet: decile["6m"] is decile_6m;          *)
(*   - returns are integers (only their order and nullness are read);      *)
(*   - week dates are week numbers 1, 2, ... (ISO dates compare alike).    *)
(***************************************************************************)
EXTENDS Integers, Sequences, FiniteSets, TLC

\* ------------------------------------------------------------------ bounds
\* Weeks the pipeline is run for, and the largest sector population.
MaxWeek == 3
MaxFunds == 20
\* Calls of rank_sector that are followed one after another.
MaxCalls == 3

\* --------------------------------------------------------------- constants
\* rank_sector's defaults, which run_pipeline never overrides.
QuartileThreshold == 20
MinFunds == 5
\* Python None / pandas NA / SQL NULL, and the float NaN of a return column.
None == -1
NaN == -2
\* The sentinel of "no prior tier".
NoTier == 99

Periods == <<"1m", "3m", "6m">>
PeriodSet == {"1m", "3m", "6m"}

VARIABLES
    fund_rankings,      \* table fund_rankings: a set of ranking rows
    week_date,          \* week_date of the latest run_pipeline (0: none yet)
    all_performances,   \* the sector's entry of all_performances (a list)
    failed_sectors,     \* TRUE iff the sector's acquisition raised in the run
    prior_by_sector,    \* the sector's entry of prior_by_sector (a list)
    result,             \* what rank_sector returned in the latest run
    calls,              \* history: the calls of rank_sector and their results
    sector_run,         \* run_pipeline over all monitored sectors: its locals
    pipeline_status_cache,  \* main.py: {"running": ..., "last_result": ...}
    requests,           \* POST /api/pipeline/run: how far each request got
    conn,               \* step 5: the connection get_db yields and its end
    alert_history,      \* table alert_history: a set of alerts
    get_call,           \* one call of TrustnetScraper._get and what it did
    fetch_call,         \* one call of fetch_sector and what it did
    dispatch_call       \* one call of dispatch_digest and what it did

\* The state of the parts around the weekly ranking of one sector; the
\* actions of the ranking leave it alone.
api == <<pipeline_status_cache, requests>>
db == <<conn, alert_history>>
outside == <<get_call, fetch_call, dispatch_call>>
components == <<sector_run, api, db, outside>>

vars == <<fund_rankings, week_date, all_performances, failed_sectors,
          prior_by_sector, result, calls, components>>

\* The variables of the weekly ranking of one sector.
pipeline == <<fund_rankings, week_date, all_performances, failed_sectors,
              prior_by_sector, result, calls>>

\* ----------------------------------------------------------------- helpers
\* A null read as it stands, without the default: the variant C16 excludes.
PyOr_without_default(v, d) == v

\* Python's `v or d` on a nullable number: None and 0 are falsy.
PyOr(v, d) == IF v = None \/ v = 0 THEN d ELSE v

\* np.ceil(a / b) for positive integers.
Ceil(a, b) == (a + b - 1) \div b

\* Series.clip(lo, hi).
Clip(v, lo, hi) == IF v < lo THEN lo ELSE IF v > hi THEN hi ELSE v

\* A list comprehension or pandas Series, held as a tuple.
List(f) == SubSeq(f, 1, Len(f))

\* The three per-period columns x_1m, x_3m, x_6m as one function of the period.
ByPeriod(x) == ("1m" :> x["1m"]) @@ ("3m" :> x["3m"]) @@ ("6m" :> x["6m"])

\* df[col]: the column return_p of the snapshot, indexed by input position.
Column(performances, p) ==
    List([i \in 1..Len(performances) |-> performances[i].ret[p]])

\* series.dropna(): the index of the non-null entries.
dropna(series) == {i \in DOMAIN series : series[i] # None}

\* A rank that breaks ties in favour of the later entry: the variant C11
\* excludes.
rank_last(series) ==
    LET valid == dropna(series)
    IN  SubSeq([i \in DOMAIN series |->
            IF i \notin valid THEN None
            ELSE Cardinality({j \in valid :
                    \/ series[j] > series[i]
                    \/ (series[j] = series[i] /\ j >= i)})], 1, Len(series))

\* valid.rank(ascending=False, method="first"), laid over the index of the
\* whole series: the rank of every non-null entry, ties ranked in order of
\* appearance, and None where the entry is null.
rank_first(series) ==
    LET valid == dropna(series)
    IN  List([i \in DOMAIN series |->
            IF i \notin valid THEN None
            ELSE Cardinality({j \in valid :
                    \/ series[j] > series[i]
                    \/ (series[j] = series[i] /\ j <= i)})])

\* pd.Series(pd.NA, index=series.index)
AllNA(series) == List([i \in DOMAIN series |-> None])

\* Tiers numbered from the bottom of the pool: the variant C13 excludes.
Binned_from_bottom(ranks, n, k) ==
    SubSeq([i \in DOMAIN ranks |->
               IF ranks[i] = None THEN None
               ELSE k + 1 - Clip(Ceil(ranks[i] * k, n), 1, k)], 1, Len(ranks))

\* np.ceil(ranks / n * k).clip(1, k), written into a series of NA at
\* valid.index.
Binned(ranks, n, k) ==
    List([i \in DOMAIN ranks |->
            IF ranks[i] = None THEN None
            ELSE Clip(Ceil(ranks[i] * k, n), 1, k)])

\* ------------------------------------------------------------- ranking.py
\* Deciles over the sector population instead of the pool: the variant C12
\* excludes.
assign_deciles_of_population(series) ==
    IF Cardinality(dropna(series)) < 2 THEN AllNA(series)
    ELSE Binned(rank_first(series), Len(series), 10)

assign_deciles(series) ==
    IF Cardinality(dropna(series)) < 2 THEN AllNA(series)
    ELSE Binned(rank_first(series), Cardinality(dropna(series)), 10)

\* assign_quartiles binning into ten: the variant C9's quartile range excludes.
assign_quartiles_in_tenths(series) == assign_deciles(series)

\* Quartiles of an ascending rank, the worst return first: the variant C26
\* excludes.
assign_quartiles_ascending(series) ==
    IF Cardinality(dropna(series)) < 2 THEN AllNA(series)
    ELSE Binned_from_bottom(rank_first(series),
                            Cardinality(dropna(series)), 4)

assign_quartiles(series) ==
    IF Cardinality(dropna(series)) < 2 THEN AllNA(series)
    ELSE Binned(rank_first(series), Cardinality(dropna(series)), 4)

assign_ranks(series) ==
    IF Cardinality(dropna(series)) < 1 THEN AllNA(series)
    ELSE rank_first(series)

\* A population test that skips no sector: the variant C8 excludes.
too_few_never(n, min_funds) == FALSE

\* `if n < min_funds`: the sector is skipped.
too_few(n, min_funds) == n < min_funds

\* use_q = n < quartile_threshold
use_q_of(n, quartile_threshold) == n < quartile_threshold

\* in_top read from the decile in either mode: the variant C7 excludes.
in_top_by_decile(use_q, cq, cd) == cd = 1

\* in_top = (cq == 1) if use_q else (cd == 1)
in_top(use_q, cq, cd) == IF use_q THEN cq = 1 ELSE cd = 1

\* A streak that is kept, not reset, out of the top tier: the variant C4
\* excludes.
new_streak_kept(prev_streak, top) == IF top THEN prev_streak + 1 ELSE prev_streak

\* A streak that counts the weeks after the first one in the top tier: the
\* variant C24 excludes.
new_streak_uncounted(prev_streak, top) == IF top THEN prev_streak ELSE 0

\* streaks[p] = prev_streak + 1 if in_top else 0
new_streak(prev_streak, top) == IF top THEN prev_streak + 1 ELSE 0

\* was_top = int(prev.get(<tier column of this week's mode>, 99) or 99) == 1
was_top(use_q, prev_quartile, prev_decile) ==
    IF use_q THEN PyOr(prev_quartile, NoTier) = 1
             ELSE PyOr(prev_decile, NoTier) = 1

\* An alert test that passes over a null current tier: the variant C1
\* excludes.
alert_fires_on_value(use_q, wastop, cq, cd) ==
    wastop /\ (IF use_q THEN cq # 1 /\ cq # None ELSE cd # 1 /\ cd # None)

\* the alert test: `was_top and cq != 1` / `was_top and cd != 1`
alert_fires(use_q, wastop, cq, cd) ==
    wastop /\ (IF use_q THEN cq # 1 ELSE cd # 1)

\* alert_type of the branch taken
alert_type_of(use_q) == IF use_q THEN "quartile_drop" ELSE "decile_drop"

\* prior_map = {r["fund_id"]: r for r in (prior or [])}: the last row of a
\* fund id wins.
HasPrior(prior, fid) == \E k \in DOMAIN prior : prior[k].fund_id = fid

prior_map(prior, fid) ==
    LET ks == {k \in DOMAIN prior : prior[k].fund_id = fid}
    IN  prior[CHOOSE k \in ks : \A j \in ks : j <= k]

\* A prior_map kept from the call before: the variant C19 excludes.
prior_map_get_retained(prior, fid) ==
    IF HasPrior(prior_by_sector, fid)
    THEN [found |-> TRUE, row |-> prior_map(prior_by_sector, fid)]
    ELSE [found |-> FALSE]

\* prev = prior_map.get(fid, {}): the fund's prior row, or the empty dict.
prior_map_get(prior, fid) ==
    IF HasPrior(prior, fid) THEN [found |-> TRUE, row |-> prior_map(prior, fid)]
    ELSE [found |-> FALSE]

\* A lookup that never finds the prior streak: the variant C14 excludes.
prev_get_without_streak(prev, field, p, default) ==
    IF prev.found /\ field # "streak" THEN prev.row[field][p] ELSE default

\* prev.get(f"{field}_{p}", default)
prev_get(prev, field, p, default) ==
    IF prev.found THEN prev.row[field][p] ELSE default

\* float(row.get(f"return_{p}") or 0): a null of a float column is NaN, which
\* is truthy; a null of an all-None (object) column is None.
return_value_of(series, i) ==
    IF series[i] # None THEN series[i]
    ELSE IF dropna(series) = {} THEN 0 ELSE NaN

\* df.dropna(subset=["return_6m"]).nlargest(3, "return_6m"): the positions of
\* the three largest 6-month returns, ties in input order.
nlargest3(series) ==
    LET valid == dropna(series)
        k == IF Cardinality(valid) < 3 THEN Cardinality(valid) ELSE 3
        ranks == rank_first(series)
    IN  List([r \in 1..k |-> CHOOSE i \in valid : ranks[i] = r])

\* nlargest raises TypeError on a column of dtype object, which is what
\* pd.DataFrame builds for a column holding None only.
nlargest_raises(series) == Len(series) > 0 /\ dropna(series) = {}

EmptyResult(n) ==
    [raised |-> FALSE, rankings |-> <<>>, alerts |-> <<>>, top3 |-> <<>>,
     use_quartiles |-> FALSE, n |-> n]

RaisedResult ==
    [raised |-> TRUE, rankings |-> <<>>, alerts |-> <<>>, top3 |-> <<>>,
     use_quartiles |-> FALSE, n |-> 0]

\* The loop over df.iterrows() and the top-3 selection, given the frame's
\* columns (col, decile, quartile, rank: by period, then by input position)
\* and each fund's prior row (prev, by input position).
rank_rows(performances, wd, use_q, n, col, decile, quartile, rank, prev) ==
    LET fid(i) == performances[i].fund_id
        prev_streak(i, p) == PyOr(prev_get(prev[i], "streak", p, 0), 0)
        top(i, p) == in_top(use_q, quartile[p][i], decile[p][i])
        wastop(i, p) ==
            was_top(use_q, prev_get(prev[i], "quartile", p, NoTier),
                           prev_get(prev[i], "decile", p, NoTier))
        fires(i, p) ==
            alert_fires(use_q, wastop(i, p), quartile[p][i], decile[p][i])
        alert(i, p) ==
            [fund_id |-> fid(i), week_date |-> wd,
             alert_type |-> alert_type_of(use_q), period |-> p,
             prev_decile |-> 1,
             curr_decile |-> IF use_q THEN quartile[p][i] ELSE decile[p][i],
             streak_broken |-> prev_streak(i, p),
             return_value |-> return_value_of(col[p], i)]
        \* the loop nest `for row: for p:` flattened, k = 3*(i-1) + index of p
        slot == [k \in 1..(3 * n) |->
                    [i |-> ((k - 1) \div 3) + 1, p |-> Periods[((k - 1) % 3) + 1]]]
        fired == SelectSeq(slot, LAMBDA s : fires(s.i, s.p))
        best == nlargest3(col["6m"])
    IN  [raised |-> FALSE,
         rankings |->
            [i \in 1..n |->
                [fund_id |-> fid(i), week_date |-> wd,
                 decile |-> [p \in PeriodSet |-> decile[p][i]],
                 quartile |-> [p \in PeriodSet |-> quartile[p][i]],
                 rank |-> [p \in PeriodSet |-> rank[p][i]],
                 total_in_sector |-> n,
                 streak |-> [p \in PeriodSet |->
                                new_streak(prev_streak(i, p), top(i, p))]]],
         alerts |-> [k \in 1..Len(fired) |-> alert(fired[k].i, fired[k].p)],
         top3 |-> [r \in 1..Len(best) |->
                    [rank |-> r, fund_id |-> fid(best[r]),
                     return_6m |-> col["6m"][best[r]],
                     return_3m |-> col["3m"][best[r]],
                     return_1m |-> col["1m"][best[r]]]],
         use_quartiles |-> use_q,
         n |-> n]

\* A frame cut down to as many rows as the 1-month pool has funds: the
\* variant C18 excludes.
rank_frame_of_pool(performances, wd, prior, use_q, n, col) ==
    IF nlargest_raises(col["6m"]) THEN RaisedResult
    ELSE rank_rows(performances, wd, use_q,
                   Cardinality(dropna(col["1m"])), col,
                   ByPeriod([p \in PeriodSet |-> assign_deciles(col[p])]),
                   ByPeriod([p \in PeriodSet |-> assign_quartiles(col[p])]),
                   ByPeriod([p \in PeriodSet |-> assign_ranks(col[p])]),
                   SubSeq([i \in 1..n |->
                            prior_map_get(prior, performances[i].fund_id)],
                          1, n))

\* The frame df of the snapshot with its decile, quartile and rank columns.
rank_frame(performances, wd, prior, use_q, n, col) ==
    IF nlargest_raises(col["6m"]) THEN RaisedResult
    ELSE rank_rows(performances, wd, use_q, n, col,
                   ByPeriod([p \in PeriodSet |-> assign_deciles(col[p])]),
                   ByPeriod([p \in PeriodSet |-> assign_quartiles(col[p])]),
                   ByPeriod([p \in PeriodSet |-> assign_ranks(col[p])]),
                   List([i \in 1..n |->
                            prior_map_get(prior, performances[i].fund_id)]))

rank_sector(performances, wd, prior, quartile_threshold, min_funds) ==
    IF Len(performances) = 0 THEN EmptyResult(0)
    ELSE IF too_few(Len(performances), min_funds)
         THEN EmptyResult(Len(performances))
    ELSE rank_frame(performances, wd, prior,
                    use_q_of(Len(performances), quartile_threshold),
                    Len(performances),
                    ByPeriod([p \in PeriodSet |-> Column(performances, p)]))

\* ------------------------------------------------------------ pipeline.py
RECURSIVE Ascending(_)

\* The fund ids of a result set in ascending order.
Ascending(ids) ==
    IF ids = {} THEN <<>>
    ELSE LET least == CHOOSE x \in ids : \A y \in ids : x <= y
         IN  <<least>> \o Ascending(ids \ {least})

\* A prior query that takes the weeks up to and including the current one:
\* the variant C20 excludes.
get_prior_through(table, wd) ==
    LET earlier == {r.week_date : r \in {x \in table : x.week_date <= wd}}
    IN  IF earlier = {} THEN <<>>
        ELSE
        LET latest == CHOOSE w \in earlier : \A v \in earlier : v <= w
            rows == {r \in table : r.week_date = latest}
            order == Ascending({r.fund_id : r \in rows})
        IN  SubSeq([k \in 1..Len(order) |->
                       CHOOSE r \in rows : r.fund_id = order[k]],
                   1, Len(order))

\* A prior query that takes, for every fund, the latest earlier row of the
\* fund, whatever its week: the variant C23 excludes.
get_prior_last_seen(table, wd) ==
    LET earlier == {x \in table : x.week_date < wd}
        rows == {r \in earlier :
                    \A x \in earlier :
                        x.fund_id = r.fund_id => x.week_date <= r.week_date}
        order == Ascending({r.fund_id : r \in rows})
    IN  List([k \in 1..Len(order) |->
                CHOOSE r \in rows : r.fund_id = order[k]])

\* Step 3: the rows of the sector whose week_date is the greatest one before
\* wd. The query has no ORDER BY; the rows are listed by fund_id here, and
\* rank_sector reads them through prior_map only.
get_prior(table, wd) ==
    LET earlier == {r.week_date : r \in {x \in table : x.week_date < wd}}
    IN  IF earlier = {} THEN <<>>
        ELSE
        LET latest == CHOOSE w \in earlier : \A v \in earlier : v <= w
            rows == {r \in table : r.week_date = latest}
            order == Ascending({r.fund_id : r \in rows})
        IN  List([k \in 1..Len(order) |->
                CHOOSE r \in rows : r.fund_id = order[k]])

\* Step 5: INSERT OR REPLACE INTO fund_rankings, one row per (fund_id,
\* week_date).
upsert_rankings(table, rankings) ==
    LET new == {rankings[i] : i \in DOMAIN rankings}
    IN  {r \in table :
            ~\E x \in new : x.fund_id = r.fund_id /\ x.week_date = r.week_date}
        \cup new

\* ----------------------------------------------------------- the snapshots
\* What fetch_sector may return for the sector: n funds with fund ids 1..n in
\* input order, each return column of one of these shapes.
Shapes == <<"flat", "asc", "hole", "one", "none">>

ShapeReturn(s, i, n) ==
    CASE s = "flat"  -> 5                               \* all returns tie
      [] s = "asc"   -> i                               \* the last fund is best
      [] s = "hole"  -> IF i = 1 THEN None ELSE 5       \* the first fund is null
      [] s = "one"   -> IF i = 1 THEN 5 ELSE None       \* a pool of one
      [] s = "none"  -> None                            \* an empty pool

\* The k-th snapshot of n funds: the three periods take three consecutive
\* shapes, so every period meets every shape.
Snapshot(n, k) ==
    [i \in 1..n |->
        [fund_id |-> i,
         ret |-> [p \in PeriodSet |->
                    LET o == CHOOSE x \in 1..3 : Periods[x] = p
                    IN  ShapeReturn(Shapes[((k + o - 2) % Len(Shapes)) + 1], i, n)]]]

Sizes == {0, MinFunds - 1, MinFunds, MaxFunds}

Snapshots == {Snapshot(n, k) : n \in Sizes, k \in 1..Len(Shapes)}

\* ------------------------------------------------------------ run_pipeline
\* One live run for week wd in which fetch_sector returned `data`: steps 1,
\* 3, 4 and 5. An exception of rank_sector leaves run_pipeline before step 5.
RunAcquired(wd, data) ==
    LET prior == get_prior(fund_rankings, wd)
        res == rank_sector(data, wd, prior, QuartileThreshold, MinFunds)
    IN  /\ week_date' = wd
        /\ all_performances' = data
        /\ failed_sectors' = FALSE
        /\ prior_by_sector' = prior
        /\ result' = res
        /\ fund_rankings' = IF res.raised THEN fund_rankings
                            ELSE upsert_rankings(fund_rankings, res.rankings)
        /\ UNCHANGED <<calls, components>>

\* One live run for week wd in which fetch_sector raised: the sector is
\* reported failed and is ranked by nothing.
RunFailed(wd) ==
    /\ week_date' = wd
    /\ all_performances' = <<>>
    /\ failed_sectors' = TRUE
    /\ prior_by_sector' = <<>>
    /\ result' = EmptyResult(0)
    /\ UNCHANGED <<fund_rankings, calls, components>>

\* Before any run over the monitored sectors.
NoSectorRun ==
    [done |-> FALSE, raised |-> FALSE, fetched |-> <<>>,
     all_performances |-> <<>>, failed_sectors |-> <<>>, passed |-> <<>>,
     sectors_ok |-> 0, sectors_failed |-> 0]

\* No connection of step 5 yet.
NoConnection ==
    [status |-> "none", open |-> FALSE, executed |-> 0,
     before |-> [fund_rankings |-> {}, alert_history |-> {}],
     view |-> [fund_rankings |-> {}, alert_history |-> {}]]

\* The requests a client may send to POST /api/pipeline/run.
MaxRequests == 3
Requests == 1..MaxRequests

InitComponents ==
    /\ sector_run = NoSectorRun
    /\ pipeline_status_cache = [running |-> FALSE, last_result |-> None]
    /\ requests = [r \in Requests |-> "unsent"]
    /\ conn = NoConnection
    /\ alert_history = {}
    /\ get_call = [done |-> FALSE]
    /\ fetch_call = [done |-> FALSE]
    /\ dispatch_call = [done |-> FALSE]

Init ==
    /\ fund_rankings = {}
    /\ week_date = 0
    /\ all_performances = <<>>
    /\ failed_sectors = FALSE
    /\ prior_by_sector = <<>>
    /\ result = EmptyResult(0)
    /\ calls = <<>>
    /\ InitComponents

\* The weekly schedule: the run of the next week.
WeeklyRun ==
    /\ week_date < MaxWeek
    /\ \E data \in Snapshots : RunAcquired(week_date + 1, data)

WeeklyFailure ==
    /\ week_date < MaxWeek
    /\ RunFailed(week_date + 1)

Next == WeeklyRun \/ WeeklyFailure

Spec == Init /\ [][Next]_vars

\* --------------------------------------------------- rank_sector, called
\* rank_sector as a function of its arguments: frames of performances and
\* prior rows beyond those the weekly schedule above produces.

\* The position of a period in Periods.
PeriodIndex(p) == CHOOSE x \in 1..3 : Periods[x] = p

\* The returns a small frame draws from: null, and two values that tie.
SmallReturns == {None, 1, 2}

Turn(v) == IF v = None THEN 1 ELSE IF v = 1 THEN 2 ELSE None

\* A frame of min_funds funds: return_1m is v, return_3m is v reversed,
\* return_6m is v with its values exchanged.
SmallFrame(v) ==
    [i \in 1..MinFunds |->
        [fund_id |-> i,
         ret |-> ("1m" :> v[i]) @@ ("3m" :> v[MinFunds + 1 - i])
                 @@ ("6m" :> Turn(v[i]))]]

SmallFrames == {SmallFrame(v) : v \in [1..MinFunds -> SmallReturns]}

\* A frame of n funds with ties and nulls spread over the input order.
MidFrame(n) ==
    [i \in 1..n |->
        [fund_id |-> i,
         ret |-> ("1m" :> IF i % 9 = 0 THEN None ELSE i \div 2)
                 @@ ("3m" :> IF i % 3 = 0 THEN None ELSE (n - i) \div 3)
                 @@ ("6m" :> IF i % 4 = 1 THEN None ELSE i % 3)]]

MidFrames == {MidFrame(n) : n \in {MinFunds + 2, MaxFunds - 1, MaxFunds}}

Frames == Snapshots \cup SmallFrames \cup MidFrames

\* Prior rows as a caller may pass them: every fund top tier with a streak
\* of 2 ("top"), every column null ("null"), or tiers and streaks that vary
\* with the fund and the period ("mixed").
PriorRow(f, kind) ==
    [fund_id |-> f, week_date |-> 0,
     decile |-> [p \in PeriodSet |->
        CASE kind = "top" -> 1
          [] kind = "null" -> None
          [] OTHER -> IF (f + PeriodIndex(p)) % 2 = 0 THEN 1 ELSE 2],
     quartile |-> [p \in PeriodSet |->
        CASE kind = "top" -> 1
          [] kind = "null" -> None
          [] OTHER -> IF (f + PeriodIndex(p)) % 3 = 0 THEN 1 ELSE 3],
     rank |-> [p \in PeriodSet |-> None],
     total_in_sector |-> MaxFunds,
     streak |-> [p \in PeriodSet |->
        CASE kind = "top" -> 2
          [] kind = "null" -> None
          [] OTHER -> (f + 2 * PeriodIndex(p)) % 3]]

\* The prior argument: no rows (None and [] alike: `prior or []`), or rows of
\* one kind for the funds 1..MaxFunds - 2.
PriorKinds == {"top", "null", "mixed"}

Priors ==
    {<<>>} \cup {[f \in 1..(MaxFunds - 2) |-> PriorRow(f, kind)] :
                    kind \in PriorKinds}

\* The arguments of one call.
InitCall ==
    /\ fund_rankings = {}
    /\ week_date = 0
    /\ all_performances \in Frames
    /\ failed_sectors = FALSE
    /\ prior_by_sector \in Priors
    /\ result = EmptyResult(0)
    /\ calls = <<>>
    /\ InitComponents

\* The call: rank_sector(code, name, performances, week_date, prior) with the
\* default thresholds.
Call ==
    /\ week_date = 0
    /\ week_date' = 1
    /\ result' = rank_sector(all_performances, 1, prior_by_sector,
                             QuartileThreshold, MinFunds)
    /\ UNCHANGED <<fund_rankings, all_performances, failed_sectors,
                   prior_by_sector, calls, components>>

NextCall == Call

RankSpec == InitCall /\ [][NextCall]_vars

\* ------------------------------------------- rank_sector, called repeatedly
\* Step 4 of run_pipeline calls rank_sector once per sector, and every run
\* calls it again: calls of two sectors and two weeks, in any order, each
\* recorded with what it returned.
Sectors == {"UKAC", "GLEQ"}

\* What a call is given: week 1 has no prior rows, week 2 the rows of a week
\* in which every fund was top tier.
CallArgs ==
    {[sector |-> sc, performances |-> Snapshot(MinFunds, k), week |-> wd,
      prior |-> IF wd = 1 THEN <<>>
                ELSE [f \in 1..MinFunds |-> PriorRow(f, "top")]] :
        sc \in Sectors, k \in 1..2, wd \in 1..2}

CallOf(args) ==
    LET res == rank_sector(args.performances, args.week, args.prior,
                           QuartileThreshold, MinFunds)
    IN  /\ Len(calls) < MaxCalls
        /\ week_date' = args.week
        /\ all_performances' = args.performances
        /\ prior_by_sector' = args.prior
        /\ result' = res
        /\ calls' = Append(calls, [args |-> args, result |-> res])
        /\ UNCHANGED <<fund_rankings, failed_sectors, components>>

CallAny == \E args \in CallArgs : CallOf(args)

CallsSpec == Init /\ [][CallAny]_vars

\* ------------------------------------------------ run_pipeline, any week
\* run_pipeline(week_date=...) for any date: a week already stored is run
\* again, and a week earlier than stored ones is run late.
RerunSnapshots ==
    {Snapshot(MinFunds, k) : k \in 1..2} \cup {Snapshot(MinFunds - 1, 1)}

RunAnyWeek ==
    \E wd \in 1..MaxWeek : \E data \in RerunSnapshots : RunAcquired(wd, data)

RunAnyWeekFailed == \E wd \in 1..MaxWeek : RunFailed(wd)

NextRerun == RunAnyWeek \/ RunAnyWeekFailed

RerunSpec == Init /\ [][NextRerun]_vars

\* ------------------------------------------- run_pipeline, sparse returns
\* A snapshot of n funds of which only the first m have returns, the first
\* fund the best.
Sparse(n, m) ==
    [i \in 1..n |->
        [fund_id |-> i,
         ret |-> [p \in PeriodSet |-> IF i <= m THEN m + 1 - i ELSE None]]]

PoolSnapshots ==
    {Snapshot(MinFunds, 1), Snapshot(MaxFunds, 1)} \cup
    {Sparse(n, m) : n \in {MinFunds, MaxFunds}, m \in {2, 3}}

\* The weekly schedule over snapshots whose pools are far smaller than the
\* sector.
WeeklyPoolRun ==
    /\ week_date < MaxWeek
    /\ \E data \in PoolSnapshots : RunAcquired(week_date + 1, data)

PoolSpec == Init /\ [][WeeklyPoolRun]_vars

\* --------------------------------------------------- get_db and step 5
\* The tables as a new connection reads them.
Tables == [fund_rankings |-> fund_rankings, alert_history |-> alert_history]

\* The statements of step 5 in their order: one INSERT OR REPLACE per ranking
\* row, then one INSERT OR IGNORE per alert.
writes(res) ==
    [i \in 1..(Len(res.rankings) + Len(res.alerts)) |->
        IF i <= Len(res.rankings)
        THEN [table |-> "fund_rankings", row |-> res.rankings[i]]
        ELSE [table |-> "alert_history",
              row |-> res.alerts[i - Len(res.rankings)]]]

\* conn.execute of one statement of step 5: sqlite3 opens a transaction before
\* the first INSERT, so the row is written to the connection's own view of
\* the tables. An alert that is stored already is ignored.
execute(view, w) ==
    IF w.table = "fund_rankings"
    THEN [view EXCEPT !.fund_rankings = upsert_rankings(@, <<w.row>>)]
    ELSE [view EXCEPT !.alert_history = @ \cup {w.row}]

\* A get_db that commits in its `finally`, whatever happened: the variant C27
\* excludes.
get_db_exit_commits_always(raised, tables, view) == view

\* The end of get_db: conn.commit() after a body that did not raise makes the
\* connection's view the tables; conn.rollback() after an exception leaves
\* the tables as they were.
get_db_exit(raised, tables, view) == IF raised THEN tables ELSE view

\* run_pipeline for week wd up to the `with get_db() as conn:` of step 5:
\* steps 1, 3 and 4, and the connection. An exception of rank_sector leaves
\* run_pipeline before step 5.
RunToStep5(wd, data) ==
    LET prior == get_prior(fund_rankings, wd)
        res == rank_sector(data, wd, prior, QuartileThreshold, MinFunds)
    IN  /\ ~conn.open
        /\ week_date' = wd
        /\ all_performances' = data
        /\ failed_sectors' = FALSE
        /\ prior_by_sector' = prior
        /\ result' = res
        /\ conn' = [status |-> IF res.raised THEN "unreached" ELSE "open",
                    open |-> ~res.raised, executed |-> 0,
                    before |-> Tables, view |-> Tables]
        /\ UNCHANGED <<fund_rankings, alert_history, calls, sector_run, api,
                       outside>>

\* The next statement of step 5 is executed.
Execute ==
    /\ conn.open
    /\ conn.executed < Len(writes(result))
    /\ conn' = [conn EXCEPT
                  !.executed = @ + 1,
                  !.view = execute(@, writes(result)[conn.executed + 1])]
    /\ UNCHANGED <<pipeline, alert_history, sector_run, api, outside>>

\* get_db after the yield: commit or rollback, and close in `finally`.
Exit(raised) ==
    LET tables == get_db_exit(raised, Tables, conn.view)
    IN  /\ fund_rankings' = tables.fund_rankings
        /\ alert_history' = tables.alert_history
        /\ conn' = [conn EXCEPT
                      !.status = IF raised THEN "rolled back" ELSE "committed",
                      !.open = FALSE]
        /\ UNCHANGED <<week_date, all_performances, failed_sectors,
                       prior_by_sector, result, calls, sector_run, api,
                       outside>>

\* The next statement of step 5 raises.
ExecuteRaises ==
    /\ conn.open
    /\ conn.executed < Len(writes(result))
    /\ Exit(TRUE)

\* The body of the `with` ends and conn.commit() succeeds.
Commit ==
    /\ conn.open
    /\ conn.executed = Len(writes(result))
    /\ Exit(FALSE)

\* The body of the `with` ends and conn.commit() raises.
CommitRaises ==
    /\ conn.open
    /\ conn.executed = Len(writes(result))
    /\ Exit(TRUE)

PersistSnapshots == {Snapshot(MinFunds, k) : k \in 1..2}

WeeklyRunToStep5 ==
    /\ week_date < MaxWeek
    /\ \E data \in PersistSnapshots : RunToStep5(week_date + 1, data)

NextPersist ==
    WeeklyRunToStep5 \/ Execute \/ ExecuteRaises \/ Commit \/ CommitRaises

PersistSpec == Init /\ [][NextPersist]_vars

\* ------------------------------------------- run_pipeline, all the sectors
\* The monitored sectors of the configuration, in its order.
MaxSectors == 3
Monitored == 1..MaxSectors

\* What scraper.fetch_sector does for one sector in a live run: it raises, or
\* it returns the sector's snapshot (the third one has no 6m return at all).
SectorSnapshots ==
    {Snapshot(0, 1), Snapshot(MinFunds, 1), Snapshot(MinFunds, 2),
     Snapshot(MinFunds, 3)}
Fetches ==
    {[raised |-> TRUE, data |-> <<>>]} \cup
    {[raised |-> FALSE, data |-> d] : d \in SectorSnapshots}

\* Step 1, live: the sectors whose fetch returned, in the order of the loop
\* (the keys of all_performances), and those whose fetch raised.
RECURSIVE Kept(_, _, _)
Kept(fetched, s, raised) ==
    IF s > Len(fetched) THEN <<>>
    ELSE (IF fetched[s].raised = raised THEN <<s>> ELSE <<>>)
         \o Kept(fetched, s + 1, raised)

\* Step 4: the loop over all_performances calls rank_sector for one sector
\* after the other, outside any try: a call that raises ends run_pipeline.
\* The position in `order` of the first call that raises, 0 when none does.
first_raising(fetched, order) ==
    LET bad == {i \in 1..Len(order) :
                  rank_sector(fetched[order[i]].data, 1, <<>>,
                              QuartileThreshold, MinFunds).raised}
    IN  IF bad = {} THEN 0 ELSE CHOOSE i \in bad : \A j \in bad : i <= j

\* How often step 4 passed each monitored sector to rank_sector.
passed_to_rank_sector(fetched, order) ==
    LET stop == first_raising(fetched, order)
    IN  [s \in 1..Len(fetched) |->
           Cardinality({i \in 1..Len(order) :
                          order[i] = s /\ (stop = 0 \/ i <= stop)})]

\* run_pipeline(use_mock_data=False) on an empty database, as far as the
\* sectors are concerned: steps 1 and 4 and the summary.
run_sectors(fetched) ==
    LET order == Kept(fetched, 1, FALSE)
        failed == Kept(fetched, 1, TRUE)
        stop == first_raising(fetched, order)
    IN  [done |-> TRUE, raised |-> stop # 0, fetched |-> fetched,
         all_performances |-> order, failed_sectors |-> failed,
         passed |-> passed_to_rank_sector(fetched, order),
         sectors_ok |-> IF stop # 0 THEN 0 ELSE Len(order),
         sectors_failed |-> IF stop # 0 THEN 0 ELSE Len(failed)]

RunSectors ==
    /\ ~sector_run.done
    /\ \E fetched \in [Monitored -> Fetches] :
          sector_run' = run_sectors(fetched)
    /\ UNCHANGED <<pipeline, api, db, outside>>

SectorsSpec == Init /\ [][RunSectors]_vars

\* ------------------------------------------------ POST /api/pipeline/run
\* trigger_pipeline for request r: 409 while the cache says a run is running,
\* otherwise the task is added to the response's background tasks; it starts
\* only after the response was sent.
trigger_pipeline(r) ==
    /\ requests[r] = "unsent"
    /\ requests' = [requests EXCEPT ![r] =
                      IF pipeline_status_cache.running THEN "409"
                      ELSE "started"]
    /\ UNCHANGED <<pipeline, sector_run, pipeline_status_cache, db, outside>>

\* run_pipeline_task begins in a worker thread: its first statement sets the
\* flag.
run_pipeline_task_begins(r) ==
    /\ requests[r] = "started"
    /\ requests' = [requests EXCEPT ![r] = "running"]
    /\ pipeline_status_cache' =
          [pipeline_status_cache EXCEPT !.running = TRUE]
    /\ UNCHANGED <<pipeline, sector_run, db, outside>>

\* run_pipeline returned: the result is stored, and `finally` clears the flag.
run_pipeline_task_returns(r) ==
    /\ requests[r] = "running"
    /\ requests' = [requests EXCEPT ![r] = "finished"]
    /\ pipeline_status_cache' = [running |-> FALSE, last_result |-> r]
    /\ UNCHANGED <<pipeline, sector_run, db, outside>>

\* run_pipeline raised: nothing is stored, and `finally` clears the flag.
run_pipeline_task_raises(r) ==
    /\ requests[r] = "running"
    /\ requests' = [requests EXCEPT ![r] = "finished"]
    /\ pipeline_status_cache' =
          [pipeline_status_cache EXCEPT !.running = FALSE]
    /\ UNCHANGED <<pipeline, sector_run, db, outside>>

NextTrigger ==
    \E r \in Requests :
        \/ trigger_pipeline(r)
        \/ run_pipeline_task_begins(r)
        \/ run_pipeline_task_returns(r)
        \/ run_pipeline_task_raises(r)

TriggerSpec == Init /\ [][NextTrigger]_vars

\* -------------------------------------------------- TrustnetScraper._get
\* The largest max_retries of the configuration that is tried.
MaxRetries == 3

\* What one session.get of _get does: a response that passes
\* raise_for_status, or one of the requests.RequestException it may raise.
Answers == {"ok", "Timeout", "HTTPError"}

\* _get from the iteration `attempt` of its loop on: the requests and sleeps
\* it makes, and how it ends. After range(1, retries + 1) is exhausted the
\* function falls off its end and returns None.
RECURSIVE get_from(_, _, _, _)
get_from(retries, answers, attempt, events) ==
    IF attempt > retries
    THEN [events |-> events, outcome |-> "None", error |-> "none"]
    ELSE IF answers[attempt] = "ok"
    THEN [events |-> Append(events, "get"), outcome |-> "response",
          error |-> "none"]
    ELSE IF attempt < retries
    THEN get_from(retries, answers, attempt + 1,
                  events \o <<"get", "sleep">>)
    ELSE [events |-> Append(events, "get"), outcome |-> "raised",
          error |-> answers[attempt]]

\* self._get(url, params) with self.retries = retries, the k-th session.get
\* answering answers[k].
scraper_get(retries, answers) == get_from(retries, answers, 1, <<>>)

GetCall ==
    /\ ~get_call.done
    /\ \E retries \in 0..MaxRetries : \E answers \in [1..MaxRetries -> Answers] :
          get_call' = [done |-> TRUE, retries |-> retries, answers |-> answers,
                       out |-> scraper_get(retries, answers)]
    /\ UNCHANGED <<pipeline, sector_run, api, db, fetch_call, dispatch_call>>

GetSpec == Init /\ [][GetCall]_vars

\* ------------------------------------------- TrustnetScraper.fetch_sector
API_CANDIDATES == <<"www/api/v2", "www/api/v1", "api/v2">>
PERF_URL == "www/fund/price-performance"

\* What the request of one API candidate comes to: _get or the parsing
\* raises, the response is not JSON, the parsed list is empty, or it holds
\* funds.
ApiAnswers == {"raised", "not json", "no funds", "funds"}

\* What the request of the HTML page comes to: _get raises, no table can be
\* parsed (ValueError), or the rows of the best table are returned.
HtmlAnswers == {"raised", "no table", "funds"}

\* A candidate loop without its try: the first exception leaves
\* fetch_sector_api. The variant C28 excludes.
RECURSIVE api_unguarded_from(_, _, _)
api_unguarded_from(answers, c, requested) ==
    IF c > Len(API_CANDIDATES)
    THEN [requested |-> requested, outcome |-> "ValueError", by |-> 0]
    ELSE IF answers[c] = "funds"
    THEN [requested |-> Append(requested, API_CANDIDATES[c]),
          outcome |-> "funds", by |-> c]
    ELSE IF answers[c] = "raised"
    THEN [requested |-> Append(requested, API_CANDIDATES[c]),
          outcome |-> "ValueError", by |-> 0]
    ELSE api_unguarded_from(answers, c + 1,
                            Append(requested, API_CANDIDATES[c]))

fetch_sector_api_unguarded(answers) == api_unguarded_from(answers, 1, <<>>)

\* fetch_sector_api from candidate c on: the loop returns at the first
\* candidate with a non-empty list, goes on after anything else, and raises
\* ValueError after the last candidate.
RECURSIVE api_from(_, _, _)
api_from(answers, c, requested) ==
    IF c > Len(API_CANDIDATES)
    THEN [requested |-> requested, outcome |-> "ValueError", by |-> 0]
    ELSE IF answers[c] = "funds"
    THEN [requested |-> Append(requested, API_CANDIDATES[c]),
          outcome |-> "funds", by |-> c]
    ELSE api_from(answers, c + 1, Append(requested, API_CANDIDATES[c]))

fetch_sector_api(answers) == api_from(answers, 1, <<>>)

\* fetch_sector_html after the API requests `requested`: one request of
\* PERF_URL; its exceptions are not caught.
fetch_sector_html(html, requested) ==
    [requested |-> Append(requested, PERF_URL),
     outcome |-> IF html = "funds" THEN "funds" ELSE "raised",
     error |-> IF html = "funds" THEN "none" ELSE html,
     by |-> IF html = "funds" THEN Len(API_CANDIDATES) + 1 ELSE 0]

\* fetch_sector: the API, and the HTML page after any exception of the API.
fetch_sector(answers, html) ==
    LET api_result == fetch_sector_api(answers)
    IN  IF api_result.outcome = "funds"
        THEN [requested |-> api_result.requested, outcome |-> "funds",
              error |-> "none", by |-> api_result.by]
        ELSE fetch_sector_html(html, api_result.requested)

FetchCall ==
    /\ ~fetch_call.done
    /\ \E answers \in [1..Len(API_CANDIDATES) -> ApiAnswers] :
       \E html \in HtmlAnswers :
          fetch_call' = [done |-> TRUE, answers |-> answers, html |-> html,
                         out |-> fetch_sector(answers, html)]
    /\ UNCHANGED <<pipeline, sector_run, api, db, get_call, dispatch_call>>

FetchSpec == Init /\ [][FetchCall]_vars

\* ------------------------------------------------------- dispatch_digest
\* The values of email.provider in the configuration: the two names the code
\* tests for, and two others.
Providers == {"sendgrid", "ses", "smtp", "mailgun"}

\* The send function dispatch_digest calls for a provider: send_via_smtp is
\* the `else` branch.
send_via(provider) ==
    IF provider \in {"sendgrid", "ses"} THEN provider ELSE "smtp"

\* How a send function may end: send_via_sendgrid returns True on status 200
\* or 202 and False otherwise; send_via_ses and send_via_smtp return True;
\* each of them may raise.
SendAnswers(provider) ==
    IF send_via(provider) = "sendgrid" THEN {"True", "False", "raised"}
    ELSE {"True", "raised"}

\* The sizes of alerts.recipients and of the set of funds with a drop.
MaxRecipients == 2

\* A dispatch that goes on to SMTP when the provider's send failed: the
\* variant C30 excludes.
dispatch_digest_with_fallback(recipients, send_even_if_no_drops, drop_count, provider, answer) ==
    IF recipients = 0
    THEN [attempted |-> <<>>, returned |-> FALSE, raised |-> FALSE]
    ELSE IF ~send_even_if_no_drops /\ drop_count = 0
    THEN [attempted |-> <<>>, returned |-> TRUE, raised |-> FALSE]
    ELSE IF answer = "True" \/ send_via(provider) = "smtp"
    THEN [attempted |-> <<send_via(provider)>>,
          returned |-> answer = "True", raised |-> FALSE]
    ELSE [attempted |-> <<send_via(provider), "smtp">>,
          returned |-> TRUE, raised |-> FALSE]

\* dispatch_digest with `recipients` recipients configured and drop_count
\* funds in the alerts, the send function ending as `answer` says.
\* render_digest and build_subject run before the try and are taken to
\* return: their template is read from the package directory and their
\* arguments are those run_pipeline builds.
dispatch_digest(recipients, send_even_if_no_drops, drop_count, provider, answer) ==
    IF recipients = 0
    THEN [attempted |-> <<>>, returned |-> FALSE, raised |-> FALSE]
    ELSE IF ~send_even_if_no_drops /\ drop_count = 0
    THEN [attempted |-> <<>>, returned |-> TRUE, raised |-> FALSE]
    ELSE [attempted |-> <<send_via(provider)>>,
          returned |-> answer = "True", raised |-> FALSE]

DispatchCall ==
    /\ ~dispatch_call.done
    /\ \E recipients \in 0..MaxRecipients : \E drop_count \in 0..MaxRecipients :
       \E send_even_if_no_drops \in BOOLEAN :
       \E provider \in Providers : \E answer \in SendAnswers(provider) :
          dispatch_call' =
              [done |-> TRUE, recipients |-> recipients,
               send_even_if_no_drops |-> send_even_if_no_drops,
               drop_count |-> drop_count, provider |-> provider,
               answer |-> answer,
               out |-> dispatch_digest(recipients, send_even_if_no_drops,
                                       drop_count, provider, answer)]
    /\ UNCHANGED <<pipeline, sector_run, api, db, get_call, fetch_call>>

DispatchSpec == Init /\ [][DispatchCall]_vars

\* -------------------------------------------------------------- properties
\* The latest run called rank_sector and it returned.
Returned == week_date > 0 /\ ~failed_sectors /\ ~result.raised

\* The latest run ranked the sector: rank_sector passed both early returns.
Ranked == Returned /\ Len(all_performances) >= MinFunds

\* The tier of a ranking row for period p under a mode.
Tier(row, p, use_q) == IF use_q THEN row.quartile[p] ELSE row.decile[p]

\* The prior rows of a fund, and the alerts of a fund and period.
PriorRows(fid) ==
    {k \in DOMAIN prior_by_sector : prior_by_sector[k].fund_id = fid}

AlertsOf(fid, p) ==
    {k \in DOMAIN result.alerts :
        result.alerts[k].fund_id = fid /\ result.alerts[k].period = p}

\* The number of funds of the snapshot with a non-null return for period p.
Pool(p) ==
    Cardinality({i \in DOMAIN all_performances :
                    all_performances[i].ret[p] # None})

\* C1: in a run that ranks the sector, (fund, period) has an alert if and
\* only if a prior row of the fund has tier 1 for the period under this
\* week's mode and the fund's tier this week is not 1 (null included); every
\* alert is for a fund of the snapshot, and a fund without a prior row has
\* none.
C1_AlertIffTopTierLost ==
    Ranked =>
        /\ \A i \in DOMAIN all_performances : \A p \in PeriodSet :
            LET fid == all_performances[i].fund_id
                prior_top ==
                    \E k \in PriorRows(fid) :
                        Tier(prior_by_sector[k], p, result.use_quartiles) = 1
                now_top ==
                    Tier(result.rankings[i], p, result.use_quartiles) = 1
            IN  /\ (AlertsOf(fid, p) # {}) <=> (prior_top /\ ~now_top)
                /\ PriorRows(fid) = {} => AlertsOf(fid, p) = {}
        /\ \A k \in DOMAIN result.alerts :
            \E i \in DOMAIN all_performances :
                all_performances[i].fund_id = result.alerts[k].fund_id

\* C1's case: an alert for a fund whose tier this week is null, in a run
\* where another fund of the snapshot was top tier last week and still is.
C1_Witness ==
    /\ Ranked
    /\ \E k \in DOMAIN result.alerts : result.alerts[k].curr_decile = None
    /\ \E i \in DOMAIN all_performances : \E p \in PeriodSet :
        /\ Tier(result.rankings[i], p, result.use_quartiles) = 1
        /\ \E k \in PriorRows(all_performances[i].fund_id) :
            Tier(prior_by_sector[k], p, result.use_quartiles) = 1

\* C2: every alert of a weekly run is for a fund whose prior row has a
\* streak of at least 1 for the period, and carries streak_broken >= 1.
C2_AlertBreaksStreak ==
    Ranked =>
        \A a \in DOMAIN result.alerts :
            /\ result.alerts[a].streak_broken >= 1
            /\ \E k \in PriorRows(result.alerts[a].fund_id) :
                prior_by_sector[k].streak[result.alerts[a].period] >= 1

\* C3: a fund whose prior row has a streak of at least 1 for a period and
\* whose streak for the period is 0 this week has an alert for it this week.
C3_NoTransitionMissed ==
    Ranked =>
        \A i \in DOMAIN all_performances : \A p \in PeriodSet :
            \A k \in PriorRows(all_performances[i].fund_id) :
                (prior_by_sector[k].streak[p] >= 1
                    /\ result.rankings[i].streak[p] = 0)
                => AlertsOf(all_performances[i].fund_id, p) # {}

\* C4: the streak written for a fund and period is the prior streak of the
\* same fund and period (0 without a prior row) plus 1 when the fund is top
\* tier for the period this week, and 0 otherwise.
C4_StreakStep ==
    Ranked =>
        \A i \in DOMAIN all_performances : \A p \in PeriodSet :
            LET ks == PriorRows(all_performances[i].fund_id)
                prior_streak ==
                    IF ks = {} THEN 0
                    ELSE prior_by_sector[CHOOSE k \in ks : TRUE].streak[p]
                now_top ==
                    Tier(result.rankings[i], p, result.use_quartiles) = 1
            IN  result.rankings[i].streak[p] =
                    IF now_top THEN prior_streak + 1 ELSE 0

\* C4's case: in one run a streak grows from 1 to 2, another is reset from
\* 1 or more to 0, and a fund without a prior streak starts one.
C4_Witness ==
    /\ Ranked
    /\ \E i \in DOMAIN all_performances : \E p \in PeriodSet :
        /\ result.rankings[i].streak[p] = 2
        /\ \E k \in PriorRows(all_performances[i].fund_id) :
            prior_by_sector[k].streak[p] = 1
    /\ \E i \in DOMAIN all_performances : \E p \in PeriodSet :
        /\ result.rankings[i].streak[p] = 0
        /\ \E k \in PriorRows(all_performances[i].fund_id) :
            prior_by_sector[k].streak[p] >= 1
    /\ \E i \in DOMAIN all_performances : \E p \in PeriodSet :
        /\ result.rankings[i].streak[p] = 1
        /\ \A k \in PriorRows(all_performances[i].fund_id) :
            prior_by_sector[k].streak[p] = 0

RECURSIVE WeeksInTop(_, _, _)

\* The number of consecutive weeks, ending with week w, in which the table
\* holds a row of the fund that is top tier for period p under the mode of
\* that week's population.
WeeksInTop(fid, p, w) ==
    IF w < 1 THEN 0
    ELSE IF \E r \in fund_rankings :
                /\ r.fund_id = fid
                /\ r.week_date = w
                /\ Tier(r, p, r.total_in_sector < QuartileThreshold) = 1
         THEN 1 + WeeksInTop(fid, p, w - 1)
         ELSE 0

\* C5: every stored streak of a fund for a period equals the number of
\* consecutive weeks, ending with the row's week, in which the fund was top
\* tier for the period, weeks without ranking rows included.
C5_StreakCountsConsecutiveWeeks ==
    \A r \in fund_rankings : \A p \in PeriodSet :
        r.streak[p] = WeeksInTop(r.fund_id, p, r.week_date)

\* C6: whatever the population n, 0 and 0 < n < min_funds included, the
\* use_quartiles that rank_sector returns is true if and only if
\* n < quartile_threshold.
C6_ModeFollowsThreshold ==
    Returned =>
        (result.use_quartiles <=> Len(all_performances) < QuartileThreshold)

\* C7: in a run that ranks the sector the mode is n < quartile_threshold, and
\* under it, for every fund and period, the streak is positive exactly when
\* the tier of the mode (quartile when use_quartiles, decile otherwise) is 1;
\* every alert has the alert_type of the mode, carries the fund's tier of the
\* mode, and that tier is not 1; every ranking row carries both the decile and
\* the quartile of the fund's rank in the period's pool.
C7_OneTopTierTest ==
    Ranked =>
        LET use_q == Len(all_performances) < QuartileThreshold
        IN  /\ result.use_quartiles = use_q
            /\ \A i \in DOMAIN all_performances : \A p \in PeriodSet :
                LET row == result.rankings[i]
                IN  /\ (row.streak[p] > 0) <=> (Tier(row, p, use_q) = 1)
                    /\ (row.decile[p] = None) <=> (row.quartile[p] = None)
                    /\ row.decile[p] # None =>
                        /\ row.decile[p] = Ceil(row.rank[p] * 10, Pool(p))
                        /\ row.quartile[p] = Ceil(row.rank[p] * 4, Pool(p))
                    /\ \A a \in AlertsOf(row.fund_id, p) :
                        /\ result.alerts[a].curr_decile = Tier(row, p, use_q)
                        /\ result.alerts[a].curr_decile # 1
            /\ \A a \in DOMAIN result.alerts :
                result.alerts[a].alert_type =
                    IF use_q THEN "quartile_drop" ELSE "decile_drop"

\* C7's case: a run in quartile mode with an alert, a fund in the top
\* quartile that is not in the top decile, and a running streak.
C7_Witness ==
    /\ Ranked
    /\ result.use_quartiles
    /\ result.alerts # <<>>
    /\ \E i \in DOMAIN all_performances : \E p \in PeriodSet :
        /\ result.rankings[i].quartile[p] = 1
        /\ result.rankings[i].decile[p] > 1
        /\ result.rankings[i].streak[p] > 0

\* C8: with fewer than min_funds funds rank_sector returns, without raising,
\* no rankings, no alerts and no top 3, and reports n, whatever the prior
\* rows and the returns are.
C8_TooFewFundsRankNothing ==
    (week_date > 0 /\ ~failed_sectors /\ Len(all_performances) < MinFunds) =>
        /\ ~result.raised
        /\ result.rankings = <<>>
        /\ result.alerts = <<>>
        /\ result.top3 = <<>>
        /\ result.n = Len(all_performances)

\* C8's case: a snapshot of 1 to min_funds - 1 funds, one of which was top
\* tier in the prior rows.
C8_Witness ==
    /\ week_date > 0
    /\ ~failed_sectors
    /\ Len(all_performances) > 0
    /\ Len(all_performances) < MinFunds
    /\ result.n = Len(all_performances)
    /\ \E i \in DOMAIN all_performances : \E p \in PeriodSet :
        \E k \in PriorRows(all_performances[i].fund_id) :
            prior_by_sector[k].quartile[p] = 1

\* The ranges of a ranking row's tiers and rank for period p.
InRange(row, p) ==
    /\ row.decile[p] # None => row.decile[p] \in 1..10
    /\ row.quartile[p] # None => row.quartile[p] \in 1..4
    /\ row.rank[p] # None => row.rank[p] >= 1

AllNull(row, p) ==
    row.rank[p] = None /\ row.decile[p] = None /\ row.quartile[p] = None

NoneNull(row, p) ==
    row.rank[p] # None /\ row.decile[p] # None /\ row.quartile[p] # None

\* C9, as stated: in every ranking row and period the decile is in 1..10, the
\* quartile in 1..4 and the rank at least 1 when non-null, and the three are
\* all null when the fund's return for the period is null and all non-null
\* when it is not.
C9_NullExactlyWhenReturnNull ==
    Ranked =>
        \A i \in DOMAIN all_performances : \A p \in PeriodSet :
            /\ InRange(result.rankings[i], p)
            /\ IF all_performances[i].ret[p] = None
               THEN AllNull(result.rankings[i], p)
               ELSE NoneNull(result.rankings[i], p)

\* C9, amended: the ranges hold; a null return gives three nulls; a non-null
\* return gives three non-nulls when at least 2 funds of the sector have a
\* non-null return for the period.
C9_NullWhenReturnNull ==
    Ranked =>
        \A i \in DOMAIN all_performances : \A p \in PeriodSet :
            /\ InRange(result.rankings[i], p)
            /\ all_performances[i].ret[p] = None
                => AllNull(result.rankings[i], p)
            /\ (all_performances[i].ret[p] # None /\ Pool(p) >= 2)
                => NoneNull(result.rankings[i], p)

\* C9's case: a period of a ranked sector in which one fund has a null
\* return and the others are ranked down to the last decile and quartile.
C9_Witness ==
    /\ Ranked
    /\ \E p \in PeriodSet :
        /\ \E i \in DOMAIN all_performances :
            all_performances[i].ret[p] = None
        /\ \E i \in DOMAIN all_performances :
            /\ result.rankings[i].decile[p] = 10
            /\ result.rankings[i].quartile[p] = 4
            /\ result.rankings[i].rank[p] = Pool(p)

\* C10: for a period in which fewer than 2 funds have a non-null return,
\* every ranking row has a null rank, a null decile and a null quartile.
C10_SmallPoolAllNull ==
    Ranked =>
        \A p \in PeriodSet :
            Pool(p) < 2 =>
                \A i \in DOMAIN result.rankings :
                    AllNull(result.rankings[i], p)

\* The funds (input positions) with a non-null return for period p.
Valid(p) ==
    {i \in DOMAIN all_performances : all_performances[i].ret[p] # None}

\* C11: for a period whose pool has m >= 2 funds the ranks of the pool are a
\* bijection onto 1..m; a strictly higher return has a strictly lower rank,
\* and of two equal returns the one earlier in the input has the lower rank.
C11_RankIsSortedPosition ==
    Ranked =>
        \A p \in PeriodSet :
            Cardinality(Valid(p)) >= 2 =>
                /\ {result.rankings[i].rank[p] : i \in Valid(p)}
                        = 1..Cardinality(Valid(p))
                /\ \A i, j \in Valid(p) :
                    LET ri == all_performances[i].ret[p]
                        rj == all_performances[j].ret[p]
                    IN  (ri > rj \/ (ri = rj /\ i < j)) =>
                            result.rankings[i].rank[p]
                                < result.rankings[j].rank[p]

\* C11's case: a pool with a null outside it, in which two funds tie and a
\* fund later in the input has a higher return than both.
C11_Witness ==
    /\ Ranked
    /\ \E p \in PeriodSet :
        /\ Valid(p) # DOMAIN all_performances
        /\ \E i, j, k \in Valid(p) :
            /\ i < j /\ j < k
            /\ all_performances[i].ret[p] = all_performances[j].ret[p]
            /\ all_performances[k].ret[p] > all_performances[j].ret[p]
            /\ result.rankings[k].rank[p] < result.rankings[i].rank[p]
            /\ result.rankings[j].rank[p] = result.rankings[i].rank[p] + 1

\* C12: for a period whose pool has m >= 2 funds, a fund of the pool with
\* rank r has decile ceil(10 * r / m) and quartile ceil(4 * r / m), m being
\* the pool size and not the population; the values lie in 1..10 and 1..4,
\* and the fund of rank m has decile 10 and quartile 4.
C12_TierIsCeilingOverPool ==
    Ranked =>
        \A p \in PeriodSet :
            LET m == Cardinality(Valid(p))
            IN  m >= 2 =>
                    \A i \in Valid(p) :
                        LET r == result.rankings[i].rank[p]
                            d == result.rankings[i].decile[p]
                            q == result.rankings[i].quartile[p]
                        IN  /\ d \in 1..10
                            /\ q \in 1..4
                            /\ (d - 1) * m < 10 * r /\ 10 * r <= d * m
                            /\ (q - 1) * m < 4 * r /\ 4 * r <= q * m
                            /\ r = m => (d = 10 /\ q = 4)

\* C12's case: a pool smaller than the population, with a fund whose decile
\* and quartile over the pool differ from those over the population.
C12_Witness ==
    /\ Ranked
    /\ \E p \in PeriodSet :
        LET m == Cardinality(Valid(p))
            n == Len(all_performances)
        IN  /\ m >= 2
            /\ m < n
            /\ \E i \in Valid(p) :
                /\ result.rankings[i].decile[p] * n
                        >= 10 * result.rankings[i].rank[p] + n
                /\ result.rankings[i].quartile[p] * n
                        >= 4 * result.rankings[i].rank[p] + n

\* C13: of two funds with non-null returns for a period (pool of 2 or more),
\* the one with the strictly higher return has a rank, decile and quartile
\* not greater than the other's; and a fund with a rank not greater than
\* another's has a decile and a quartile not greater than the other's.
C13_Monotone ==
    Ranked =>
        \A p \in PeriodSet :
            Cardinality(Valid(p)) >= 2 =>
                \A i, j \in Valid(p) :
                    LET a == result.rankings[i]
                        b == result.rankings[j]
                    IN  /\ all_performances[i].ret[p]
                                > all_performances[j].ret[p]
                            => /\ a.rank[p] <= b.rank[p]
                               /\ a.decile[p] <= b.decile[p]
                               /\ a.quartile[p] <= b.quartile[p]
                        /\ a.rank[p] <= b.rank[p]
                            => /\ a.decile[p] <= b.decile[p]
                               /\ a.quartile[p] <= b.quartile[p]

\* C13's case: a fund with a higher return than another, a lower decile and
\* the same quartile, and a third fund in a higher quartile.
C13_Witness ==
    /\ Ranked
    /\ \E p \in PeriodSet : \E i, j, k \in Valid(p) :
        /\ all_performances[i].ret[p] > all_performances[j].ret[p]
        /\ result.rankings[i].decile[p] < result.rankings[j].decile[p]
        /\ result.rankings[i].quartile[p] = result.rankings[j].quartile[p]
        /\ result.rankings[j].quartile[p] < result.rankings[k].quartile[p]

\* C14: every alert carries prev_decile 1, the fund's tier of this week under
\* this week's mode as curr_decile (never 1, and null when the fund has no
\* return for the period), and the streak of the fund's prior row as
\* streak_broken; the fund's ranking row of this week has streak 0 for the
\* period.
C14_AlertFields ==
    Ranked =>
        \A a \in DOMAIN result.alerts :
            LET alert == result.alerts[a]
                p == alert.period
            IN  /\ alert.prev_decile = 1
                /\ alert.curr_decile # 1
                /\ \E k \in PriorRows(alert.fund_id) :
                    alert.streak_broken = prior_by_sector[k].streak[p]
                /\ \E i \in DOMAIN all_performances :
                    /\ all_performances[i].fund_id = alert.fund_id
                    /\ alert.curr_decile =
                        Tier(result.rankings[i], p, result.use_quartiles)
                    /\ all_performances[i].ret[p] = None
                        => alert.curr_decile = None
                    /\ result.rankings[i].streak[p] = 0

\* C14's case: an alert with a null current tier that breaks a streak of 2,
\* and an alert with a non-null current tier.
C14_Witness ==
    /\ Ranked
    /\ \E a \in DOMAIN result.alerts :
        result.alerts[a].curr_decile = None
            /\ result.alerts[a].streak_broken = 2
    /\ \E a \in DOMAIN result.alerts : result.alerts[a].curr_decile > 1

\* A prior row is top tier for period p under the mode of its own week.
WasTopLastWeek(row, p) ==
    Tier(row, p, row.total_in_sector < QuartileThreshold) = 1

\* What the alert test of (fund at position i, period p) may read: the tiers
\* of the fund's prior row for p, if any, and the fund's tiers of this week.
AlertInputs(i, p) ==
    <<{<<prior_by_sector[k].decile[p], prior_by_sector[k].quartile[p]>> :
            k \in PriorRows(all_performances[i].fund_id)},
      result.rankings[i].decile[p], result.rankings[i].quartile[p]>>

\* C15: in one result a fund has at most one alert per period; whether
\* (fund, period) has an alert is decided by that period's prior and current
\* values alone; and there is no alert for a fund that is top tier for the
\* period this week or was not top tier for it last week.
C15_AlertPerPeriod ==
    Ranked =>
        \A i \in DOMAIN all_performances : \A p \in PeriodSet :
            LET fid == all_performances[i].fund_id
            IN  /\ Cardinality(AlertsOf(fid, p)) <= 1
                /\ \A j \in DOMAIN all_performances : \A q \in PeriodSet :
                    AlertInputs(i, p) = AlertInputs(j, q) =>
                        ((AlertsOf(fid, p) = {}) <=>
                            (AlertsOf(all_performances[j].fund_id, q) = {}))
                /\ Tier(result.rankings[i], p, result.use_quartiles) = 1
                    => AlertsOf(fid, p) = {}
                /\ (\A k \in PriorRows(fid) :
                        ~WasTopLastWeek(prior_by_sector[k], p))
                    => AlertsOf(fid, p) = {}

\* C16: a fund without a prior row, or whose prior row has null tiers and
\* streaks, has no alert in any period, and its streak for a period is 1
\* when it is top tier for the period this week and 0 otherwise.
C16_NewFundStartsAfresh ==
    Ranked =>
        \A i \in DOMAIN all_performances :
            LET ks == PriorRows(all_performances[i].fund_id)
                blank(k) ==
                    \A q \in PeriodSet :
                        /\ prior_by_sector[k].decile[q] = None
                        /\ prior_by_sector[k].quartile[q] = None
                        /\ prior_by_sector[k].streak[q] = None
            IN  (\A k \in ks : blank(k)) =>
                    \A p \in PeriodSet :
                        /\ AlertsOf(all_performances[i].fund_id, p) = {}
                        /\ result.rankings[i].streak[p] =
                            IF Tier(result.rankings[i], p,
                                    result.use_quartiles) = 1
                            THEN 1 ELSE 0

\* C16's case: a call with prior rows in which a fund without a prior row is
\* top tier and starts a streak of 1 while another fund has an alert.
C16_Witness ==
    /\ Ranked
    /\ result.alerts # <<>>
    /\ \E i \in DOMAIN all_performances : \E p \in PeriodSet :
        /\ PriorRows(all_performances[i].fund_id) = {}
        /\ result.rankings[i].streak[p] = 1

\* The smaller of two numbers.
Min(a, b) == IF a < b THEN a ELSE b

\* C17: with n >= min_funds, top3 has exactly min(3, number of funds with a
\* non-null 6-month return) entries; they are the funds with the highest
\* 6-month returns, in descending order with ties in input order, with the
\* display ranks 1, 2, 3; no fund with a null 6-month return is among them;
\* a null 1-month or 3-month return is carried as null, not as zero.
C17_TopThree ==
    (week_date > 0 /\ ~failed_sectors /\ Len(all_performances) >= MinFunds) =>
        /\ ~result.raised
        /\ Len(result.top3) = Min(3, Cardinality(Valid("6m")))
        /\ \A r \in DOMAIN result.top3 :
            /\ result.top3[r].rank = r
            /\ \E i \in Valid("6m") :
                /\ all_performances[i].fund_id = result.top3[r].fund_id
                /\ result.top3[r].return_6m = all_performances[i].ret["6m"]
                /\ result.top3[r].return_3m = all_performances[i].ret["3m"]
                /\ result.top3[r].return_1m = all_performances[i].ret["1m"]
                \* exactly r - 1 funds come before fund i in the order
                /\ Cardinality({j \in Valid("6m") :
                        \/ all_performances[j].ret["6m"]
                                > all_performances[i].ret["6m"]
                        \/ /\ all_performances[j].ret["6m"]
                                = all_performances[i].ret["6m"]
                           /\ j < i}) = r - 1

\* C18: in a call that ranks the sector, rankings has exactly one row per
\* fund of the snapshot, in input order, funds with null returns included;
\* every row carries total_in_sector = n, the whole population, and a
\* non-null streak for each period.
C18_OneRowPerFund ==
    Ranked =>
        /\ Len(result.rankings) = Len(all_performances)
        /\ \A i \in DOMAIN all_performances :
            /\ result.rankings[i].fund_id = all_performances[i].fund_id
            /\ result.rankings[i].total_in_sector = Len(all_performances)
            /\ \A p \in PeriodSet : result.rankings[i].streak[p] \in Nat

\* C18's case: a fund whose three returns are null, and another with one
\* null return, both with a row that counts the whole population.
C18_Witness ==
    /\ Ranked
    /\ \E i, j \in DOMAIN all_performances :
        /\ \A p \in PeriodSet : all_performances[i].ret[p] = None
        /\ \E p, q \in PeriodSet :
            /\ all_performances[j].ret[p] = None
            /\ all_performances[j].ret[q] # None
        /\ result.rankings[i].fund_id = all_performances[i].fund_id
        /\ result.rankings[j].total_in_sector > Cardinality(Valid("1m"))

C20_PriorIsLatestEarlierWeek ==
    (week_date > 0 /\ ~failed_sectors) =>
        LET earlier == {r \in fund_rankings : r.week_date < week_date}
            latest == {r \in earlier :
                        \A x \in earlier : x.week_date <= r.week_date}
        IN  /\ {prior_by_sector[k] : k \in DOMAIN prior_by_sector} = latest
            /\ Len(prior_by_sector) = Cardinality(latest)
            /\ \A j, k \in DOMAIN prior_by_sector :
                /\ prior_by_sector[j].week_date = prior_by_sector[k].week_date
                /\ prior_by_sector[k].week_date < week_date

\* C20's case: a run for week 2 whose prior rows are those of week 1, while
\* rows of week 2 and of week 3 are stored.
C20_Witness ==
    /\ week_date = 2
    /\ ~failed_sectors
    /\ prior_by_sector # <<>>
    /\ \A k \in DOMAIN prior_by_sector : prior_by_sector[k].week_date = 1
    /\ \E r \in fund_rankings : r.week_date = 2 /\ r.streak["1m"] = 2
    /\ \E r \in fund_rankings : r.week_date = 3 /\ r.streak["1m"] = 3

\* C21: in a live run every monitored sector ends in exactly one of two
\* outcomes: acquired and passed to rank_sector exactly once, or its
\* acquisition raised, it is never passed to rank_sector and it is listed in
\* failed_sectors; the run reaches its summary, where sectors_ok +
\* sectors_failed is the number of monitored sectors.
C21_EverySectorRankedOrFailed ==
    sector_run.done =>
        /\ ~sector_run.raised
        /\ \A s \in Monitored :
              LET failed == \E i \in 1..Len(sector_run.failed_sectors) :
                               sector_run.failed_sectors[i] = s
              IN  IF sector_run.fetched[s].raised
                  THEN failed /\ sector_run.passed[s] = 0
                  ELSE ~failed /\ sector_run.passed[s] = 1
        /\ sector_run.sectors_ok + sector_run.sectors_failed = MaxSectors

\* C22: at most one pipeline run executes at any time: no request is accepted
\* between the acceptance of another request and the end of that request's
\* run (it gets 409), and pipeline_status_cache["running"] is true whenever a
\* run is in progress.
C22_OneRunAtATime ==
    LET accepted == {r \in Requests : requests[r] \in {"started", "running"}}
        executing == {r \in Requests : requests[r] = "running"}
    IN  /\ Cardinality(accepted) <= 1
        /\ Cardinality(executing) <= 1
        /\ executing # {} => pipeline_status_cache.running

\* The stored rows of the latest week before the week of the run.
LatestEarlierRows ==
    LET earlier == {r \in fund_rankings : r.week_date < week_date}
    IN  {r \in earlier : \A x \in earlier : x.week_date <= r.week_date}

\* C23: every ranking row and every alert of a run is for a fund of the
\* current snapshot, so a fund of the prior week that is absent this week
\* gets neither; and a fund of the snapshot that has no row in the latest
\* earlier week (new, or back after an absence) has no alert and a streak of
\* 1 when it is top tier this week and 0 otherwise, whatever its older rows.
C23_AbsentFundLeavesNoTrace ==
    Returned =>
        LET ids == {all_performances[i].fund_id : i \in DOMAIN all_performances}
            seen == {r.fund_id : r \in LatestEarlierRows}
        IN  /\ \A k \in DOMAIN result.rankings :
                result.rankings[k].fund_id \in ids
            /\ \A k \in DOMAIN result.alerts :
                result.alerts[k].fund_id \in ids
            /\ Ranked =>
                \A i \in DOMAIN all_performances : \A p \in PeriodSet :
                    all_performances[i].fund_id \notin seen =>
                        /\ AlertsOf(all_performances[i].fund_id, p) = {}
                        /\ result.rankings[i].streak[p] =
                            IF Tier(result.rankings[i], p,
                                    result.use_quartiles) = 1
                            THEN 1 ELSE 0

\* C23's case: a fund that was top tier with a streak in an older week, has
\* no row in the latest earlier week although that week has rows, and is top
\* tier again this week: its streak is 1.
C23_Witness ==
    /\ Ranked
    /\ LatestEarlierRows # {}
    /\ \E i \in DOMAIN all_performances : \E p \in PeriodSet :
        LET fid == all_performances[i].fund_id
        IN  /\ \A r \in LatestEarlierRows : r.fund_id # fid
            /\ \E r \in fund_rankings :
                /\ r.fund_id = fid
                /\ r.week_date < week_date
                /\ r.streak[p] >= 1
            /\ Tier(result.rankings[i], p, result.use_quartiles) = 1
            /\ result.rankings[i].streak[p] = 1

\* C24: over any sequence of weekly runs every stored ranking row has, for
\* every period, a streak that is at least 0 and that is at least 1 exactly
\* when the row is top tier for the period under the mode of its week; and in
\* the rows of the latest run the streak is 0 wherever the return is null.
C24_StreakSignsTopTier ==
    /\ \A r \in fund_rankings : \A p \in PeriodSet :
        /\ r.streak[p] >= 0
        /\ (r.streak[p] >= 1) <=>
              (Tier(r, p, r.total_in_sector < QuartileThreshold) = 1)
    /\ Ranked =>
        \A i \in DOMAIN all_performances : \A p \in PeriodSet :
            /\ result.rankings[i].streak[p] >= 0
            /\ (result.rankings[i].streak[p] >= 1) <=>
                  (Tier(result.rankings[i], p, result.use_quartiles) = 1)
            /\ all_performances[i].ret[p] = None =>
                  result.rankings[i].streak[p] = 0

\* C24's case: the third weekly run, in which one fund reaches a streak of 3,
\* and a fund whose prior streak was at least 1 has a null return and a
\* streak of 0.
C24_Witness ==
    /\ Ranked
    /\ week_date = MaxWeek
    /\ \E i \in DOMAIN all_performances : \E p \in PeriodSet :
        result.rankings[i].streak[p] = 3
    /\ \E i \in DOMAIN all_performances : \E p \in PeriodSet :
        /\ all_performances[i].ret[p] = None
        /\ result.rankings[i].streak[p] = 0
        /\ \E k \in PriorRows(all_performances[i].fund_id) :
            prior_by_sector[k].streak[p] >= 1

\* The funds of the snapshot that are top tier for period p this week.
TopTier(p) ==
    {i \in DOMAIN all_performances :
        Tier(result.rankings[i], p, result.use_quartiles) = 1}

\* C25: in a run that ranks the sector, a period with a pool of m >= 2 funds
\* has exactly m \div 4 top-tier funds in quartile mode and m \div 10 in
\* decile mode; when that is 0 no streak of the period grows and every fund
\* of the snapshot that was top tier last week has an alert for the period.
C25_TopTierCount ==
    Ranked =>
        \A p \in PeriodSet :
            Pool(p) >= 2 =>
                LET tiers == IF result.use_quartiles THEN 4 ELSE 10
                IN  /\ Cardinality(TopTier(p)) = Pool(p) \div tiers
                    /\ Pool(p) < tiers =>
                        \A i \in DOMAIN all_performances :
                            /\ result.rankings[i].streak[p] = 0
                            /\ (\E k \in PriorRows(all_performances[i].fund_id) :
                                    WasTopLastWeek(prior_by_sector[k], p))
                                => AlertsOf(all_performances[i].fund_id, p) # {}

\* C26: in every ranking row of a call that ranks the sector, and for every
\* period, decile 1 implies quartile 1.
C26_TopDecileInTopQuartile ==
    Ranked =>
        \A i \in DOMAIN result.rankings : \A p \in PeriodSet :
            result.rankings[i].decile[p] = 1 =>
                result.rankings[i].quartile[p] = 1

\* C26's case: one row in decile 1 and quartile 1 and, for the same period,
\* another row in quartile 1 whose decile is not 1.
C26_Witness ==
    /\ Ranked
    /\ \E p \in PeriodSet : \E i, j \in DOMAIN result.rankings :
        /\ result.rankings[i].decile[p] = 1
        /\ result.rankings[i].quartile[p] = 1
        /\ result.rankings[j].quartile[p] = 1
        /\ result.rankings[j].decile[p] > 1

\* C27: step 5 is atomic. While its connection is open, and after an insert
\* or the commit raised, the tables are what they were before the run; the
\* tables change only by a commit after every statement was executed, and then
\* hold all the ranking rows and alerts of the run; the connection is closed
\* either way; and every stored week, hence every prior, is a whole week.
C27_StepFiveIsAtomic ==
    /\ conn.status \in {"open", "rolled back"} => Tables = conn.before
    /\ conn.status \in {"committed", "rolled back"} => ~conn.open
    /\ conn.status = "committed" =>
        /\ conn.executed = Len(writes(result))
        /\ fund_rankings =
              upsert_rankings(conn.before.fund_rankings, result.rankings)
        /\ alert_history =
              conn.before.alert_history \cup
              {result.alerts[k] : k \in DOMAIN result.alerts}
    /\ \A r \in fund_rankings :
        Cardinality({x \in fund_rankings : x.week_date = r.week_date})
            = r.total_in_sector
    /\ \A k \in DOMAIN prior_by_sector :
        Len(prior_by_sector) = prior_by_sector[k].total_in_sector

\* C27's case: in a later week every ranking row was inserted and the insert
\* of an alert raised: the run was rolled back with the earlier weeks stored.
C27_Witness ==
    /\ conn.status = "rolled back"
    /\ result.alerts # <<>>
    /\ conn.executed >= Len(result.rankings)
    /\ conn.executed < Len(writes(result))
    /\ fund_rankings # {}
    /\ conn.view # Tables

\* The positions of the requests in the events of the call of _get.
GetsOf(out) == {k \in DOMAIN out.events : out.events[k] = "get"}

\* C29: for every max_retries R >= 0, _get makes at most R attempts and
\* either returns the response of its first successful attempt, making no
\* further attempt, or raises the error of the R-th attempt after R failed
\* attempts; it sleeps between two attempts only, never after the last one.
C29_GetRetriesThenRaises ==
    get_call.done =>
        LET out == get_call.out
            R == get_call.retries
            n == Cardinality(GetsOf(out))
        IN  /\ n <= R
            /\ \/ /\ out.outcome = "response"
                  /\ n >= 1
                  /\ get_call.answers[n] = "ok"
                  /\ \A k \in 1..(n - 1) : get_call.answers[k] # "ok"
               \/ /\ out.outcome = "raised"
                  /\ n = R
                  /\ \A k \in 1..R : get_call.answers[k] # "ok"
                  /\ out.error = get_call.answers[R]
            /\ \A k \in DOMAIN out.events :
                out.events[k] = "sleep" =>
                    /\ k > 1 /\ out.events[k - 1] = "get"
                    /\ k < Len(out.events) /\ out.events[k + 1] = "get"

\* C28: fetch_sector requests the API candidates in their listed order and
\* stops at the first one that yields a non-empty fund list, which it
\* returns; it requests the HTML page only after every candidate was
\* requested and none yielded funds, and then returns the rows of the page or
\* raises the error of the HTML scrape.
C28_ApiThenHtml ==
    fetch_call.done =>
        LET out == fetch_call.out
            good == {c \in 1..Len(API_CANDIDATES) :
                        fetch_call.answers[c] = "funds"}
            first == CHOOSE c \in good : \A d \in good : c <= d
        IN  IF good # {}
            THEN /\ out.requested = SubSeq(API_CANDIDATES, 1, first)
                 /\ out.outcome = "funds"
                 /\ out.by = first
            ELSE /\ out.requested = Append(API_CANDIDATES, PERF_URL)
                 /\ IF fetch_call.html = "funds"
                    THEN out.outcome = "funds"
                         /\ out.by = Len(API_CANDIDATES) + 1
                    ELSE out.outcome = "raised"
                         /\ out.error = fetch_call.html

\* C28's case: the first candidate raises, the second answers something that
\* is not JSON, the third an empty list, and the HTML page has no table: all
\* four were requested in order and the ValueError of the scrape is raised.
C28_Witness ==
    /\ fetch_call.done
    /\ fetch_call.answers = <<"raised", "not json", "no funds">>
    /\ fetch_call.html = "no table"
    /\ Len(fetch_call.out.requested) = 4
    /\ fetch_call.out.outcome = "raised"

====
